---------------------------- MODULE Spec2Model ----------------------------
(***************************************************************************)
(* A model of src/app.py: the OllamaAPI client (session with a retry       *)
(* policy, _make_request, generate_with_backup) and the Streamlit main     *)
(* function that drives it.                                                *)
(*                                                                         *)
(* Three specifications share the variables:                               *)
(*   Spec / FairSpec  calls of generate_with_backup on one OllamaAPI,      *)
(*                    interleaved at the HTTP boundary;                    *)
(*   SpecRequest      one _make_request, attempt by attempt, under the     *)
(*                    Retry policy mounted by _create_session;             *)
(*   SpecMain         one run of main, statement by statement.             *)
(*                                                                         *)
(* Temperatures are written in tenths (0.7 is 7, 0.5 is 5).                *)
(***************************************************************************)
EXTENDS Integers, Sequences, FiniteSets, TLC

VARIABLES client, calls, rq, app

vars == <<client, calls, rq, app>>

---------------------------------------------------------------------------
(* Bounds of the model.                                                    *)

\* Number of generate_with_backup calls in flight on the one client.
MaxCalls == 2

CallIds == 1..MaxCalls

---------------------------------------------------------------------------
(* Values.                                                                 *)

\* A JSON object with no key ({} in Python).
EmptyDict == [k \in {} |-> ""]

\* The messages PostGenerator.generate_grant_section builds (lines 91-94).
SystemMessage == [role |-> "system", content |-> "You are an expert grant writer."]
UserMessage == [role |-> "user", content |-> "Create a grant section using these details: {}"]

\* The default of the temperature parameter (line 51) and of the session
\* state (line 111), in tenths.
DefaultTemperature == 7

\* What callers pass: the conversation of generate_grant_section at the
\* default temperature, and the same two messages in the other order at 0.5,
\* the temperature the backup payload uses itself.
CallerInputs ==
    { [messages |-> <<SystemMessage, UserMessage>>, temperature |-> DefaultTemperature],
      [messages |-> <<UserMessage, SystemMessage>>, temperature |-> 5] }

\* OllamaAPI.__init__ (lines 16-20), as PostGenerator constructs it with the
\* defaults of init_session_state; timeout keeps its default of 90.
DefaultTimeout == 90
ConstructedClient ==
    [ base_url |-> "https://theaisource-u29564.vm.elestio.app:57987",
      username |-> "root",
      password |-> "eZfLK3X4-SX0i-UmgUBe6E",
      timeout  |-> DefaultTimeout ]

\* Bodies of a chat-completion response, as response.json() parses them.
BodyFull        == [choices |-> << [message |-> [content |-> "generated text"]] >>]
BodyNoChoices   == [id |-> "cmpl-1"]
BodyEmptyChoices == [choices |-> << >>]
BodyNoMessage   == [choices |-> << EmptyDict >>]
BodyNoContent   == [choices |-> << [message |-> EmptyDict] >>]
ResponseBodies ==
    { BodyFull, BodyNoChoices, BodyEmptyChoices, BodyNoMessage, BodyNoContent }

\* What a Python call does: return a value or raise an exception.
Return(v) == [kind |-> "return", value |-> v]
Raise(type, msg) == [kind |-> "raise", type |-> type, msg |-> msg]
NoResult == [kind |-> "none"]

\* A local variable that no statement has bound yet.
Unbound == "<unbound>"

---------------------------------------------------------------------------
(* The session of _create_session: requests over urllib3's Retry.          *)

\* Retry(total=3, ...), line 27: the number of RETRIES, so 1 + 3 attempts.
RetryTotal == 3

\* Retry(status_forcelist=[429, 500, 502, 503, 504]), line 29.
StatusForcelist == {429, 500, 502, 503, 504}

\* Lines 26-30 pass no allowed_methods, so Retry keeps its default: the
\* idempotent methods. POST is not among them.
AllowedMethods == {"HEAD", "GET", "PUT", "DELETE", "OPTIONS", "TRACE"}

\* self.session.post(...), line 41.
RequestMethod == "POST"

\* Retry._is_method_retryable.
is_method_retryable(method) == method \in AllowedMethods

\* Retry.is_retry(method, status_code) for a response without Retry-After:
\* a forced status is retried only for a retryable method.
is_retry(method, status) ==
    is_method_retryable(method) /\ status \in StatusForcelist

\* Retry.increment for an event of the attempt just made: "raise" re-raises
\* the error at once, otherwise the new total, exhausted when below zero.
\* Connect errors are retried for every method, read errors only for a
\* retryable one.
increment(total, method, ev) ==
    IF ev \in {"read_timeout", "read_error"} /\ ~is_method_retryable(method)
    THEN [reraise |-> TRUE, total |-> total]
    ELSE [reraise |-> FALSE, total |-> total - 1]

is_exhausted(total) == total < 0

\* The versions of requests the program can be installed with differ in the
\* error response.json() raises for a body that is not JSON: from 2.27 on it
\* is requests.exceptions.JSONDecodeError, a RequestException; before, the
\* decoder's own error, a ValueError.
Builds == {"requests>=2.27", "requests<2.27"}

\* The subclasses of requests.exceptions.Timeout.
TimeoutClasses == {"ConnectTimeout", "ReadTimeout"}

\* The subclasses of requests.exceptions.RequestException that can arise.
RequestExceptionClasses(build) ==
    TimeoutClasses \cup {"ConnectionError", "HTTPError", "RetryError"}
    \cup (IF build = "requests>=2.27" THEN {"JSONDecodeError"} ELSE {})

\* What session.post hands back: an exception of requests, or the final
\* HTTP response (its body either parses as JSON, to json, or does not).
PostException(class, text) == [kind |-> "exception", class |-> class, text |-> text]
PostResponse(status, parses, json) ==
    [kind |-> "response", status |-> status, parses |-> parses, json |-> json]

\* HTTPAdapter.send: the exception of requests for the urllib3 error that
\* ended the attempts.
AdapterException(ev) ==
    CASE ev = "connect_timeout" -> PostException("ConnectTimeout", "Max retries exceeded (connect timeout)")
      [] ev = "connect_error"   -> PostException("ConnectionError", "Max retries exceeded (connection refused)")
      [] ev = "read_timeout"    -> PostException("ReadTimeout", "Read timed out")
      [] ev = "read_error"      -> PostException("ConnectionError", "Connection aborted")
      [] OTHER                  -> PostException("RetryError", "Max retries exceeded (too many error responses)")

\* Response.raise_for_status, line 44: HTTPError for 400..599 only.
raise_for_status(status) ==
    IF 400 <= status /\ status < 500
    THEN Raise("HTTPError", ToString(status) \o " Client Error")
    ELSE IF 500 <= status /\ status < 600
    THEN Raise("HTTPError", ToString(status) \o " Server Error")
    ELSE NoResult

\* except_clauses with the two clauses in the other order: a Timeout is a
\* RequestException, so the general clause takes it.
except_clauses_swapped(class, text, build) ==
    IF class \in RequestExceptionClasses(build)
    THEN Raise("Exception", "API request failed: " \o text)
    ELSE IF class \in TimeoutClasses
    THEN Raise("TimeoutError", "Request timed out")
    ELSE Raise(class, text)

\* The except clauses of _make_request, lines 46-49, in their order.
except_clauses(class, text, build) ==
    IF class \in TimeoutClasses
    THEN Raise("TimeoutError", "Request timed out")
    ELSE IF class \in RequestExceptionClasses(build)
    THEN Raise("Exception", "API request failed: " \o text)
    ELSE Raise(class, text)

\* _make_request, lines 37-49, given what session.post handed back.
make_request(post, build) ==
    IF post.kind = "exception"
    THEN except_clauses(post.class, post.text, build)
    ELSE LET checked == raise_for_status(post.status) IN
         IF checked.kind = "raise"
         THEN except_clauses(checked.type, checked.msg, build)
         ELSE IF ~post.parses
         THEN except_clauses("JSONDecodeError", "Expecting value", build)
         ELSE Return(post.json)

---------------------------------------------------------------------------
(* generate_with_backup, lines 51-78.                                      *)

ModelName == "llama3.2"
PrimaryMaxTokens == 2000
BackupMaxTokens == 1000
BackupTemperature == 5

\* The first element of payloads, lines 54-60.
PrimaryPayload(messages, temperature) ==
    [ model |-> ModelName, messages |-> messages, temperature |-> temperature,
      max_tokens |-> PrimaryMaxTokens, stream |-> FALSE ]

\* BackupPayload with the caller's temperature passed through.
BackupPayloadCallerTemperature(messages, temperature) ==
    [ model |-> ModelName, messages |-> messages, temperature |-> temperature,
      max_tokens |-> BackupMaxTokens, stream |-> FALSE ]

\* The second element of payloads, lines 62-68.
BackupPayload(messages, temperature) ==
    [ model |-> ModelName, messages |-> messages, temperature |-> BackupTemperature,
      max_tokens |-> BackupMaxTokens, stream |-> FALSE ]

\* payloads, lines 53-69.
Payloads(messages, temperature) ==
    << PrimaryPayload(messages, temperature), BackupPayload(messages, temperature) >>

\* dict.get(key, default).
Get(dict, key, default) == IF key \in DOMAIN dict THEN dict[key] ELSE default

\* Line 73: response.get("choices", [{}])[0].get("message", {}).get("content", "").
\* Indexing an empty list raises IndexError.
ExtractContent(response) ==
    LET choices == Get(response, "choices", << EmptyDict >>) IN
    IF Len(choices) = 0
    THEN Raise("IndexError", "list index out of range")
    ELSE Return(Get(Get(choices[1], "message", EmptyDict), "content", ""))

\* Line 78.
AllAttemptsFailed(last_error) ==
    Raise("Exception", "All generation attempts failed. Last error: " \o last_error)

\* The states of one call.
NotStarted    == "NotStarted"
TryingVariant == "TryingVariant"
Succeeded     == "Succeeded"
Exhausted     == "Exhausted"
Terminal      == {Succeeded, Exhausted}

\* A call nobody has made yet.
IdleCall ==
    [ pc |-> NotStarted, i |-> 0, messages |-> << >>, temperature |-> 0,
      payloads |-> << >>, sent |-> << >>, outcomes |-> << >>,
      last_error |-> Unbound, result |-> NoResult ]

\* HandleFailure with the first failure kept: last_error is bound once.
HandleFailureKeepFirst(call, description) ==
    LET kept == IF call.last_error = Unbound THEN description ELSE call.last_error IN
    IF call.i + 1 < Len(call.payloads)
    THEN [call EXCEPT !.last_error = kept, !.i = call.i + 1]
    ELSE [call EXCEPT !.last_error = kept, !.i = call.i + 1,
                      !.pc = Exhausted, !.result = AllAttemptsFailed(kept)]

\* HandleFailure with last_error kept on the client, where every call reads
\* what any call wrote last.
HandleFailureShared(call, description) ==
    LET others == { d \in CallIds : calls[d].last_error \notin {Unbound, description} }
        seen == IF others = {} THEN description
                ELSE calls[CHOOSE d \in others : TRUE].last_error
    IN
    IF call.i + 1 < Len(call.payloads)
    THEN [call EXCEPT !.last_error = seen, !.i = call.i + 1]
    ELSE [call EXCEPT !.last_error = seen, !.i = call.i + 1,
                      !.pc = Exhausted, !.result = AllAttemptsFailed(seen)]

\* HandleFailure without the fallback: the first failure ends the call.
HandleFailureNoFallback(call, description) ==
    [call EXCEPT !.last_error = description, !.i = call.i + 1,
                 !.pc = Exhausted, !.result = AllAttemptsFailed(description)]

\* Lines 75-78: the except clause binds last_error and the loop goes on to
\* the next payload; after the last one the loop ends and line 78 raises.
HandleFailure(call, description) ==
    IF call.i + 1 < Len(call.payloads)
    THEN [call EXCEPT !.last_error = description, !.i = call.i + 1]
    ELSE [call EXCEPT !.last_error = description, !.i = call.i + 1,
                      !.pc = Exhausted, !.result = AllAttemptsFailed(description)]

\* Lines 72-77: one turn of the loop, given what _make_request did.
HandleOutcome(call, outcome) ==
    IF outcome.kind = "return"
    THEN LET content == ExtractContent(outcome.value) IN
         IF content.kind = "return"
         THEN [call EXCEPT !.pc = Succeeded,
                           !.result = Return(<< content.value, outcome.value >>)]
         ELSE HandleFailure(call, content.msg)
    ELSE HandleFailure(call, outcome.msg)

\* What session.post hands back in the calls of Spec: a read timeout, an
\* error status, or a 200 with each of the bodies.
PostOutcomes ==
    { PostException("ReadTimeout", "Read timed out"), PostResponse(500, TRUE, EmptyDict) }
    \cup { PostResponse(200, TRUE, b) : b \in ResponseBodies }

\* What _make_request does in the calls of Spec. No body here fails to
\* parse, so the version of requests makes no difference.
RequestOutcomes == { make_request(post, "requests>=2.27") : post \in PostOutcomes }

\* A caller invokes generate_with_backup (lines 51-69).
generate_with_backup(c, messages, temperature) ==
    /\ calls[c].pc = NotStarted
    /\ calls' = [calls EXCEPT ![c] =
                   [IdleCall EXCEPT !.pc = TryingVariant, !.i = 0,
                                    !.messages = messages,
                                    !.temperature = temperature,
                                    !.payloads = Payloads(messages, temperature)]]
    /\ UNCHANGED <<client, rq, app>>

\* One turn of the loop of lines 70-77 (and line 78 after the last).
Attempt(c) ==
    /\ calls[c].pc = TryingVariant
    /\ \E outcome \in RequestOutcomes :
         LET call == calls[c]
             payload == call.payloads[call.i + 1]
             sending == [call EXCEPT !.sent = Append(call.sent, payload),
                                     !.outcomes = Append(call.outcomes, outcome)]
         IN calls' = [calls EXCEPT ![c] = HandleOutcome(sending, outcome)]
    /\ UNCHANGED <<client, rq, app>>

\* The request and the main function at rest, for the specifications that
\* do not run them.
IdleRequest ==
    [ pc |-> "idle", build |-> "requests>=2.27", total |-> RetryTotal,
      attempts |-> << >>, result |-> NoResult ]
IdleApp == [ pc |-> 0, session_state |-> EmptyDict, rendered |-> << >>, error |-> "" ]

Init ==
    /\ client = ConstructedClient
    /\ calls = [c \in CallIds |-> IdleCall]
    /\ rq = IdleRequest
    /\ app = IdleApp

Next ==
    \/ \E c \in CallIds, in \in CallerInputs :
         generate_with_backup(c, in.messages, in.temperature)
    \/ \E c \in CallIds : Attempt(c)

Spec == Init /\ [][Next]_vars

\* A request blocks for at most the configured timeout (line 42), so a call
\* that is trying a variant gets its answer.
FairSpec == Spec /\ \A c \in CallIds : WF_vars(Attempt(c))

---------------------------------------------------------------------------
(* Claims about generate_with_backup (Spec, FairSpec).                     *)

\* The text the specification reads off a response body: the content of the
\* first choice's message, and "" when a field on that path is missing.
SpecifiedText(body) ==
    IF /\ "choices" \in DOMAIN body
       /\ Len(body.choices) >= 1
       /\ "message" \in DOMAIN body.choices[1]
       /\ "content" \in DOMAIN body.choices[1].message
    THEN body.choices[1].message.content
    ELSE ""

Requested(call, k) == Len(call.outcomes) >= k
RequestSucceeded(call, k) == Requested(call, k) /\ call.outcomes[k].kind = "return"
RequestFailed(call, k) == Requested(call, k) /\ call.outcomes[k].kind = "raise"

\* C1: when the Request of the primary payload succeeds, the call returns
\* the text and the raw response of that response, and only that one
\* Request was issued (the backup payload is never sent).
C1_PrimarySuccessShortCircuits ==
    \A c \in CallIds :
      RequestSucceeded(calls[c], 1) =>
        /\ calls[c].result = Return(<< SpecifiedText(calls[c].outcomes[1].value),
                                       calls[c].outcomes[1].value >>)
        /\ calls[c].sent = << calls[c].payloads[1] >>

\* C2: when the Request of the primary payload fails (with any error) and
\* the Request of the backup payload succeeds, the call returns the text and
\* the raw response of the backup response, after exactly two Requests, the
\* primary before the backup.
C2_BackupSuccessReturnsBackup ==
    \A c \in CallIds :
      (RequestFailed(calls[c], 1) /\ RequestSucceeded(calls[c], 2)) =>
        /\ calls[c].result = Return(<< SpecifiedText(calls[c].outcomes[2].value),
                                       calls[c].outcomes[2].value >>)
        /\ calls[c].sent = << calls[c].payloads[1], calls[c].payloads[2] >>

\* C3: when the Requests of both payloads fail, the call fails with the
\* AllAttemptsFailed error whose message embeds the failure description of
\* the backup attempt, not that of the primary attempt.
C3_BothFailEmbedsBackupError ==
    \A c \in CallIds :
      (RequestFailed(calls[c], 1) /\ RequestFailed(calls[c], 2)) =>
        /\ calls[c].pc = Exhausted
        /\ calls[c].result =
             Raise("Exception", "All generation attempts failed. Last error: "
                                   \o calls[c].outcomes[2].msg)

\* C3's case: both Requests failed, with different descriptions.
C3_Witness ==
    \E c \in CallIds :
      /\ RequestFailed(calls[c], 1) /\ RequestFailed(calls[c], 2)
      /\ calls[c].outcomes[1].msg # calls[c].outcomes[2].msg
      /\ calls[c].pc = Exhausted

\* C4: text extraction never fails: for every response body a Request
\* returns, the call ends at that variant with the body's text, "" when a
\* field on the path choices, first choice, message, content is missing,
\* and the raw response; it neither raises nor goes on to the next variant.
C4_ExtractionNeverFails ==
    \A c \in CallIds :
      \A k \in 1..Len(calls[c].outcomes) :
        calls[c].outcomes[k].kind = "return" =>
          /\ k = Len(calls[c].outcomes)
          /\ calls[c].pc = Succeeded
          /\ calls[c].result = Return(<< SpecifiedText(calls[c].outcomes[k].value),
                                         calls[c].outcomes[k].value >>)

\* C5: in every call the payload list is [primary, backup]: the primary has
\* the caller's temperature and max_tokens 2000, the backup temperature 0.5
\* and max_tokens 1000 whatever the caller passed, both have the model
\* "llama3.2", stream false and the caller's messages in the caller's
\* order, and nothing else; they are sent in that order.
C5_PayloadListIsPrimaryThenBackup ==
    \A c \in CallIds :
      calls[c].pc # NotStarted =>
        LET p == calls[c].payloads IN
        /\ Len(p) = 2
        /\ p[1].temperature = calls[c].temperature /\ p[1].max_tokens = 2000
        /\ p[2].temperature = 5 /\ p[2].max_tokens = 1000
        /\ \A k \in 1..2 :
             /\ DOMAIN p[k] = {"model", "messages", "temperature", "max_tokens", "stream"}
             /\ p[k].model = "llama3.2"
             /\ p[k].stream = FALSE
             /\ p[k].messages = calls[c].messages
        /\ Len(calls[c].sent) <= 2
        /\ calls[c].sent = SubSeq(p, 1, Len(calls[c].sent))

\* C5's case: a call with a temperature other than 0.5 has sent both
\* payloads, and another conversation order is in use as well.
C5_Witness ==
    \E c, d \in CallIds :
      /\ Len(calls[c].sent) = 2 /\ calls[c].temperature = 7
      /\ calls[d].pc # NotStarted /\ calls[d].messages # calls[c].messages

\* The failure one turn of the loop records for what its own Request did,
\* Unbound when the turn succeeds: the error of the Request, or the
\* IndexError of indexing an empty choices list.
OwnFailure(outcome) ==
    IF outcome.kind = "raise" THEN outcome.msg
    ELSE IF "choices" \in DOMAIN outcome.value /\ outcome.value.choices = << >>
    THEN "list index out of range"
    ELSE Unbound

\* What a call has come to, computed from its own arguments and the
\* outcomes of its own Requests alone.
OwnCourse(messages, temperature, outcomes) ==
    LET n == Len(outcomes)
        failed(k) == OwnFailure(outcomes[k]) # Unbound
        own == << [model |-> "llama3.2", messages |-> messages, temperature |-> temperature,
                   max_tokens |-> 2000, stream |-> FALSE],
                  [model |-> "llama3.2", messages |-> messages, temperature |-> 5,
                   max_tokens |-> 1000, stream |-> FALSE] >>
    IN
    [ sent |-> SubSeq(own, 1, n),
      last_error |-> IF n >= 1 /\ failed(n) THEN OwnFailure(outcomes[n])
                     ELSE IF n = 2 THEN OwnFailure(outcomes[1])
                     ELSE Unbound,
      result |-> IF n >= 1 /\ ~failed(n)
                 THEN Return(<< SpecifiedText(outcomes[n].value), outcomes[n].value >>)
                 ELSE IF n = 2
                 THEN Raise("Exception", "All generation attempts failed. Last error: "
                                            \o OwnFailure(outcomes[2]))
                 ELSE NoResult ]

\* C8: calls on one client are independent: what each call has sent,
\* recorded and returned or raised is determined by its own arguments and
\* the outcomes of its own Requests, however the calls interleave, and no
\* call changes base_url, username, password or timeout of the client.
C8_CallsAreIndependent ==
    /\ client = [ base_url |-> "https://theaisource-u29564.vm.elestio.app:57987",
                  username |-> "root", password |-> "eZfLK3X4-SX0i-UmgUBe6E",
                  timeout |-> 90 ]
    /\ \A c \in CallIds :
         calls[c].pc # NotStarted =>
           LET own == OwnCourse(calls[c].messages, calls[c].temperature, calls[c].outcomes) IN
           /\ calls[c].sent = own.sent
           /\ calls[c].last_error = own.last_error
           /\ calls[c].result = own.result

\* C8's case: one call has failed its primary attempt and is still in
\* flight while another call, made with other arguments, ran to its end
\* with another error.
C8_Witness ==
    \E c, d \in CallIds :
      /\ calls[c].pc = TryingVariant /\ calls[c].i = 1
      /\ calls[d].pc = Exhausted
      /\ calls[d].last_error # calls[c].last_error
      /\ calls[d].messages # calls[c].messages
      /\ calls[d].temperature # calls[c].temperature

\* The state of the specification's machine a call is in.
MachineState(call) == << call.pc, call.i >>

\* C9 (states): a call is in one state at a time; it has attempted the
\* variants 0 .. i-1, each once and in order, with at most 2 Requests; it
\* has succeeded exactly when it holds a returned pair, and is exhausted
\* exactly when it holds an error, which is the AllAttemptsFailed error and
\* comes only after both variants were attempted.
C9_StateOK(call) ==
    /\ call.pc \in {NotStarted, TryingVariant, Succeeded, Exhausted}
    /\ Len(call.sent) <= 2
    /\ call.pc # NotStarted => call.sent = SubSeq(call.payloads, 1, Len(call.sent))
    /\ call.pc = TryingVariant => call.i = Len(call.sent) /\ call.i < 2
    /\ call.pc = Succeeded <=> call.result.kind = "return"
    /\ call.pc = Exhausted <=> call.result.kind = "raise"
    /\ call.pc \notin Terminal => call.result = NoResult
    /\ call.result.kind = "raise" =>
         /\ call.result.type = "Exception"
         /\ Len(call.sent) = 2 /\ call.sent = call.payloads
         /\ \A k \in 1..2 : call.sent[k] # call.sent[3 - k]

\* C9 (steps): NotStarted -> TryingVariant(0); TryingVariant(i) ->
\* Succeeded, TryingVariant(i+1) or Exhausted; a terminal state is final.
C9_StepOK(before, after) ==
    \/ after = before
    \/ before.pc = NotStarted /\ MachineState(after) = << TryingVariant, 0 >>
    \/ /\ before.pc = TryingVariant
       /\ Len(after.sent) = Len(before.sent) + 1
       /\ \/ after.pc = Succeeded
          \/ MachineState(after) = << TryingVariant, before.i + 1 >>
          \/ after.pc = Exhausted

\* C9: every call that was started reaches a terminal state, Succeeded or
\* Exhausted, and stays there; it starts at TryingVariant(0), attempts the
\* variants in increasing order, none twice, with at most 2 Requests, and
\* the only error it surfaces is AllAttemptsFailed, once both have failed.
C9_AttemptChainTerminates ==
    /\ [](\A c \in CallIds : C9_StateOK(calls[c]))
    /\ [][\A c \in CallIds : C9_StepOK(calls[c], calls'[c])]_vars
    /\ \A c \in CallIds : (calls[c].pc = TryingVariant) ~> (calls[c].pc \in Terminal)

\* C9's case: one call exhausted both variants and another succeeded on the
\* backup after the primary failed.
C9_Witness ==
    \E c, d \in CallIds :
      /\ calls[c].pc = Exhausted /\ Len(calls[c].sent) = 2
      /\ calls[d].pc = Succeeded /\ Len(calls[d].sent) = 2

---------------------------------------------------------------------------
(* SpecRequest: one _make_request, attempt by attempt.                     *)

\* What one attempt of the POST can meet.
ConnectEvents == {"connect_error", "connect_timeout"}
ReadEvents == {"read_error", "read_timeout"}
Statuses == {200, 204, 304, 404, 429, 503}

Failure(ev) == [ev |-> ev]
Response(status, parses, json) ==
    [ev |-> "response", status |-> status, parses |-> parses, json |-> json]

\* The bodies a response carries here: two that parse, one that does not.
AttemptResponses ==
    { Response(st, TRUE, b) : st \in Statuses, b \in {BodyFull, BodyNoChoices} }
    \cup { Response(st, FALSE, EmptyDict) : st \in Statuses }

\* _make_request comes back (lines 45-49) with what session.post handed it.
Finish(event, post) ==
    rq' = [rq EXCEPT !.pc = "done",
                     !.attempts = Append(rq.attempts, event),
                     !.result = make_request(post, rq.build)]

\* urlopen goes round again with the incremented Retry.
Again(event, total) ==
    rq' = [rq EXCEPT !.attempts = Append(rq.attempts, event), !.total = total]

\* Line 41: session.post starts with the Retry of lines 26-30.
Post ==
    /\ rq.pc = "idle"
    /\ rq' = [rq EXCEPT !.pc = "sending", !.total = RetryTotal]
    /\ UNCHANGED <<client, calls, app>>

\* An attempt fails below HTTP: urlopen asks Retry.increment whether to go on.
AttemptFails(ev) ==
    /\ rq.pc = "sending"
    /\ LET inc == increment(rq.total, RequestMethod, ev) IN
       IF inc.reraise \/ is_exhausted(inc.total)
       THEN Finish(Failure(ev), AdapterException(ev))
       ELSE Again(Failure(ev), inc.total)
    /\ UNCHANGED <<client, calls, app>>

\* An attempt gets a response: urlopen retries it when Retry.is_retry says so
\* and otherwise hands it back, to lines 44-45.
AttemptResponds(resp) ==
    /\ rq.pc = "sending"
    /\ IF is_retry(RequestMethod, resp.status)
       THEN LET inc == increment(rq.total, RequestMethod, "status") IN
            IF is_exhausted(inc.total)
            THEN Finish(resp, AdapterException("status"))
            ELSE Again(resp, inc.total)
       ELSE Finish(resp, PostResponse(resp.status, resp.parses, resp.json))
    /\ UNCHANGED <<client, calls, app>>

InitRequest ==
    /\ client = ConstructedClient
    /\ calls = [c \in CallIds |-> IdleCall]
    /\ rq \in { [IdleRequest EXCEPT !.build = b] : b \in Builds }
    /\ app = IdleApp

NextRequest ==
    \/ Post
    \/ \E ev \in ConnectEvents \cup ReadEvents : AttemptFails(ev)
    \/ \E resp \in AttemptResponses : AttemptResponds(resp)

SpecRequest == InitRequest /\ [][NextRequest]_vars

---------------------------------------------------------------------------
(* Claims about _make_request and the retry layer (SpecRequest).           *)

Attempts == Len(rq.attempts)
LastAttempt == rq.attempts[Attempts]
IsResponse(event) == event.ev = "response"
TimedOut(event) == event.ev \in {"connect_timeout", "read_timeout"}

\* The cause text requests gives for the failure that ended the attempts.
CauseText(event) ==
    CASE event.ev = "connect_timeout" -> "Max retries exceeded (connect timeout)"
      [] event.ev = "connect_error"   -> "Max retries exceeded (connection refused)"
      [] event.ev = "read_error"      -> "Connection aborted"
      [] event.ev = "response" /\ event.status < 500 -> ToString(event.status) \o " Client Error"
      [] OTHER                        -> ToString(event.status) \o " Server Error"

\* C6 as stated: Request returns the parsed JSON body if and only if the
\* final HTTP response is 2xx; otherwise it fails with Timeout when the call
\* timed out and with RequestFailed, carrying the cause, in every other
\* case, and with no other error.
C6_ReturnsIffFinal2xx ==
    rq.pc = "done" =>
      /\ rq.result.kind = "return" <=>
           (IsResponse(LastAttempt) /\ LastAttempt.status \in 200..299)
      /\ rq.result.kind = "return" => rq.result.value = LastAttempt.json
      /\ rq.result.kind # "return" =>
           IF TimedOut(LastAttempt)
           THEN rq.result = Raise("TimeoutError", "Request timed out")
           ELSE rq.result.kind = "raise" /\ rq.result.type = "Exception"

\* C6 as amended: Request returns the parsed JSON body if and only if the
\* final HTTP response has a status outside 400..599 and a body that parses
\* as JSON. It fails with Timeout when the call timed out, with
\* RequestFailed carrying the cause for a final 4xx or 5xx response and for
\* any other network fault, and for a body that does not parse with
\* RequestFailed where requests raises its own JSONDecodeError (2.27 on) and
\* with the decoder's error, a ValueError, before.
C6_ReturnsIffNoErrorStatusAndJson ==
    rq.pc = "done" =>
      LET last == LastAttempt
          errorStatus == IsResponse(last) /\ last.status \in 400..599
      IN
      /\ rq.result.kind = "return" <=>
           (IsResponse(last) /\ ~errorStatus /\ last.parses)
      /\ rq.result.kind = "return" => rq.result.value = last.json
      /\ TimedOut(last) => rq.result = Raise("TimeoutError", "Request timed out")
      /\ (errorStatus \/ (~IsResponse(last) /\ ~TimedOut(last))) =>
           rq.result = Raise("Exception", "API request failed: " \o CauseText(last))
      /\ (IsResponse(last) /\ ~errorStatus /\ ~last.parses) =>
           IF rq.build = "requests>=2.27"
           THEN rq.result = Raise("Exception", "API request failed: Expecting value")
           ELSE rq.result = Raise("JSONDecodeError", "Expecting value")

\* C6's case: after a connect failure was retried, the final response is a
\* 304 whose body parses, and Request returned that body.
C6_Witness ==
    /\ rq.pc = "done" /\ Attempts >= 2
    /\ IsResponse(LastAttempt) /\ LastAttempt.status = 304
    /\ rq.result = Return(BodyFull)

\* A failure the claim has the retry layer re-attempt after.
Transient(event) ==
    \/ event.ev \in ConnectEvents \cup ReadEvents
    \/ IsResponse(event) /\ event.status \in {429, 500, 502, 503, 504}

\* C7: within one Request the retry layer re-attempts the POST after a
\* connect or read failure or a response with status 429, 500, 502, 503 or
\* 504, up to 3 attempts, and never after any other response.
C7_RetriesTransientFailures ==
    /\ Attempts <= 3
    /\ \A k \in 1..(Attempts - 1) : Transient(rq.attempts[k])
    /\ (rq.pc = "done" /\ Transient(LastAttempt)) => Attempts = 3

---------------------------------------------------------------------------
(* SpecMain: one run of main, lines 154-174, statement by statement.       *)

\* The names app.py binds at module level: its imports (lines 1-11) and its
\* classes and functions (lines 15, 81, 103, 119, 148, 154).
ModuleNames ==
    { "st", "requests", "json", "time", "Dict", "Optional", "Tuple", "List",
      "datetime", "ThreadPoolExecutor", "TimeoutError", "threading",
      "HTTPAdapter", "Retry", "queue",
      "OllamaAPI", "PostGenerator", "init_session_state",
      "create_grant_interface", "display_generated_grant_section", "main" }

\* The calls main makes, in order: the name looked up and what is called.
MainBody ==
    << [name |-> "st", call |-> "st.set_page_config"],
       [name |-> "init_session_state", call |-> "init_session_state"],
       [name |-> "st", call |-> "st.title"],
       [name |-> "st", call |-> "st.tabs"],
       [name |-> "create_post_interface", call |-> "create_post_interface"],
       [name |-> "create_grant_interface", call |-> "create_grant_interface"],
       [name |-> "display_post_history", call |-> "display_post_history"] >>

\* The keys of defaults in init_session_state, lines 105-113.
DefaultKeys ==
    { "messages", "api_url", "username", "password", "selected_model",
      "temperature", "max_tokens" }

\* init_session_state, lines 114-116: a key that is present keeps its value.
init_session_state(state) ==
    [k \in DefaultKeys \cup DOMAIN state |->
        IF k \in DOMAIN state THEN state[k] ELSE "default"]

\* What a call that resolves does to the page and the session state.
Execute(a, call) ==
    CASE call = "st.set_page_config" ->
           [a EXCEPT !.rendered = Append(@, "page_config")]
      [] call = "init_session_state" ->
           [a EXCEPT !.session_state = init_session_state(@)]
      [] call = "st.title" ->
           [a EXCEPT !.rendered = Append(@, "title")]
      [] call = "st.tabs" ->
           [a EXCEPT !.rendered = @ \o << "tab: Create Post", "tab: Grant Generator",
                                          "tab: Post History" >>]
      [] call = "create_grant_interface" ->
           [a EXCEPT !.rendered = Append(@, "grant interface")]
      [] OTHER -> a

MainRunning == app.error = "" /\ app.pc \in 1..Len(MainBody)

\* The next call of main, when its name is bound.
CallDefined ==
    /\ MainRunning
    /\ MainBody[app.pc].name \in ModuleNames
    /\ app' = [Execute(app, MainBody[app.pc].call) EXCEPT !.pc = app.pc + 1]
    /\ UNCHANGED <<client, calls, rq>>

\* The next call of main, when its name is bound nowhere: the lookup raises
\* NameError, which nothing in main catches.
CallUndefined ==
    /\ MainRunning
    /\ MainBody[app.pc].name \notin ModuleNames
    /\ app' = [app EXCEPT !.error = "NameError: name '" \o MainBody[app.pc].name
                                       \o "' is not defined"]
    /\ UNCHANGED <<client, calls, rq>>

\* A run starts with the session state an earlier run or the user left: any
\* of the default keys may be there already.
InitMain ==
    /\ client = ConstructedClient
    /\ calls = [c \in CallIds |-> IdleCall]
    /\ rq = IdleRequest
    /\ \E present \in SUBSET DefaultKeys :
         app = [IdleApp EXCEPT !.pc = 1,
                               !.session_state = [k \in present |-> "kept"]]

NextMain == CallDefined \/ CallUndefined

SpecMain == InitMain /\ [][NextMain]_vars

\* C10: every run of main, once init_session_state has filled in the
\* missing default keys, renders the tabs Create Post, Grant Generator, Post
\* History in that order and does not fail: the calls main makes before
\* create_grant_interface complete, and the grant interface is reached.
C10_MainReachesGrantInterface ==
    /\ app.error = ""
    /\ app.pc > 2 => DefaultKeys \subseteq DOMAIN app.session_state
    /\ app.pc > 4 =>
         SubSeq(app.rendered, 3, 5)
           = << "tab: Create Post", "tab: Grant Generator", "tab: Post History" >>
    /\ app.pc > Len(MainBody) =>
         "grant interface" \in { app.rendered[k] : k \in 1..Len(app.rendered) }

=============================================================================
